---- MODULE Spec2Model ----
(***************************************************************************)
(* Model of the dataset preparation utility (data.py) and of the training  *)
(* driver (train.py) of ReferringRelationships.                            *)
(*                                                                         *)
(* Floating point values are modelled as exact rationals [num, den] with a *)
(* positive denominator; comparisons are done by cross multiplication.     *)
(***************************************************************************)
EXTENDS Integers, Sequences, FiniteSets, TLC

VARIABLES
    pc,               \* position of the running script / last operation
    obj,              \* argument obj of rescale_bbox_coordinates
    im_data,          \* argument im_metadata of rescale_bbox_coordinates
    bbox,             \* (top, left, bottom, right)
    region,           \* array returned by get_regions_from_bbox
    data,             \* VRDDataset.data
    train_image_idx,  \* VRDDataset.train_image_idx
    val_image_idx,    \* VRDDataset.val_image_idx
    call,             \* arguments of the last method call
    ret,              \* value returned by the last method call
    args,             \* parsed command line arguments
    fs,               \* file system: directories and files
    metric_func,      \* train.py loop variable metric_func (module global)
    thresh,           \* train.py loop variable thresh (module global)
    metrics           \* train.py list metrics

vars == <<pc, obj, im_data, bbox, region, data, train_image_idx,
          val_image_idx, call, ret, args, fs, metric_func, thresh, metrics>>

None == "None"

\* ------------------------------------------------------------------ bounds
ImDim == 3
MaxCoord == 3
MaxSide == 3
MaxImages == 3
MaxRels == 2
MaxIdxLen == 3
ValSplitDen == 4
MaxThresholds == 2

\* --------------------------------------------------------------- rationals
Rat(n, d) == [num |-> n, den |-> d]
RatLT(a, b) == a.num * b.den < b.num * a.den
RatEQ(a, b) == a.num * b.den = b.num * a.den
RatLE(a, b) == a.num * b.den <= b.num * a.den
RatMul(a, b) == Rat(a.num * b.num, a.den * b.den)
\* Python min(a, b): b only when b < a
PyMin(a, b) == IF RatLT(b, a) THEN b ELSE a

\* ------------------------------------------------- rescale_bbox_coordinates
\* variant: the bbox is unpacked as (y_min, x_min, y_max, x_max)
rescale_bbox_coordinates_xy(o, md) ==
    LET h_ratio == Rat(ImDim, md.height)
        w_ratio == Rat(ImDim, md.width)
        y_min == o.bbox[1]
        x_min == o.bbox[2]
        y_max == o.bbox[3]
        x_max == o.bbox[4]
    IN  << RatMul(Rat(y_min, 1), h_ratio),
           RatMul(Rat(x_min, 1), w_ratio),
           PyMin(RatMul(Rat(y_max, 1), h_ratio), Rat(ImDim - 1, 1)),
           PyMin(RatMul(Rat(x_max, 1), w_ratio), Rat(ImDim - 1, 1)) >>

rescale_bbox_coordinates(o, md) ==
    LET h_ratio == Rat(ImDim, md.height)
        w_ratio == Rat(ImDim, md.width)
        y_min == o.bbox[1]
        y_max == o.bbox[2]
        x_min == o.bbox[3]
        x_max == o.bbox[4]
    IN  << RatMul(Rat(y_min, 1), h_ratio),
           RatMul(Rat(x_min, 1), w_ratio),
           PyMin(RatMul(Rat(y_max, 1), h_ratio), Rat(ImDim - 1, 1)),
           PyMin(RatMul(Rat(x_max, 1), w_ratio), Rat(ImDim - 1, 1)) >>

\* ---------------------------------------------------- get_regions_from_bbox
\* np.arange(im_dim).reshape(1, im_dim)
col_template == [r \in 0..0 |-> [c \in 0..(ImDim - 1) |-> c]]
\* np.arange(im_dim).reshape(im_dim, 1)
row_template == [r \in 0..(ImDim - 1) |-> [c \in 0..0 |-> r]]

B2I(b) == IF b THEN 1 ELSE 0
NRows(m) == Cardinality(DOMAIN m)
NCols(m) == Cardinality(DOMAIN m[0])

\* numpy.ndarray.repeat(n, axis) of a two-dimensional array
Repeat(m, n, axis) ==
    IF axis = 0
    THEN [r \in 0..(NRows(m) * n - 1) |-> m[r \div n]]
    ELSE [r \in 0..(NRows(m) - 1) |->
             [c \in 0..(NCols(m) * n - 1) |-> m[r][c \div n]]]

\* elementwise product of two arrays of the same shape
ArrMul(a, b) == [r \in DOMAIN a |-> [c \in DOMAIN a[r] |-> a[r][c] * b[r][c]]]

\* variant: the lower and right borders count as inside
get_regions_from_bbox_inclusive(b) ==
    LET top == b[1]
        left == b[2]
        bottom == b[3]
        right == b[4]
        col_indexes ==
            Repeat([r \in DOMAIN col_template |-> [c \in DOMAIN col_template[r] |->
                       1 * B2I(RatLT(left, Rat(col_template[r][c], 1)))
                         * B2I(RatLE(Rat(col_template[r][c], 1), right))]],
                   ImDim, 0)
        row_indexes ==
            Repeat([r \in DOMAIN row_template |-> [c \in DOMAIN row_template[r] |->
                       1 * B2I(RatLT(top, Rat(row_template[r][c], 1)))
                         * B2I(RatLE(Rat(row_template[r][c], 1), bottom))]],
                   ImDim, 1)
    IN  ArrMul(col_indexes, row_indexes)

get_regions_from_bbox(b) ==
    LET top == b[1]
        left == b[2]
        bottom == b[3]
        right == b[4]
        col_indexes ==
            Repeat([r \in DOMAIN col_template |-> [c \in DOMAIN col_template[r] |->
                       1 * B2I(RatLT(left, Rat(col_template[r][c], 1)))
                         * B2I(RatLT(Rat(col_template[r][c], 1), right))]],
                   ImDim, 0)
        row_indexes ==
            Repeat([r \in DOMAIN row_template |-> [c \in DOMAIN row_template[r] |->
                       1 * B2I(RatLT(top, Rat(row_template[r][c], 1)))
                         * B2I(RatLT(Rat(row_template[r][c], 1), bottom))]],
                   ImDim, 1)
    IN  ArrMul(col_indexes, row_indexes)

\* ------------------------------------------------------- variable groups
bboxVars == <<obj, im_data, bbox, region>>
dataVars == <<data, train_image_idx, val_image_idx>>
trainVars == <<metric_func, thresh, metrics>>

BBoxIdle == obj = None /\ im_data = None /\ bbox = None /\ region = None
DataIdle == data = None /\ train_image_idx = <<>> /\ val_image_idx = <<>>
ScriptIdle == args = None /\ fs = None
TrainIdle == metric_func = None /\ thresh = None /\ metrics = <<>>

\* ------------------------------------------------ inputs of the bbox code
Objects == [category : {1}, bbox : (0..MaxCoord) \X (0..MaxCoord) \X (0..MaxCoord) \X (0..MaxCoord)]
Metadata == [height : 1..MaxSide, width : 1..MaxSide]
\* coordinates handed directly to get_regions_from_bbox: halves in [-1/2, ImDim + 1/2]
Halves == {Rat(n, 2) : n \in (-1)..(2 * ImDim + 1)}
BBoxInputs == Halves \X Halves \X Halves \X Halves

\* one call of rescale_bbox_coordinates
Rescale ==
    /\ pc = "start"
    /\ bbox' = rescale_bbox_coordinates(obj, im_data)
    /\ pc' = "bbox"
    /\ UNCHANGED <<obj, im_data, region, dataVars, call, ret, args, fs, trainVars>>

\* one call of get_regions_from_bbox
Regions ==
    /\ pc = "bbox"
    /\ region' = get_regions_from_bbox(bbox)
    /\ pc' = "region"
    /\ UNCHANGED <<obj, im_data, bbox, dataVars, call, ret, args, fs, trainVars>>

InitRescale ==
    /\ pc = "start"
    /\ obj \in Objects
    /\ im_data \in Metadata
    /\ bbox = None /\ region = None
    /\ DataIdle /\ ScriptIdle /\ TrainIdle
    /\ call = None /\ ret = None

NextRescale == Rescale \/ Regions
SpecRescale == InitRescale /\ [][NextRescale]_vars

InitRegions ==
    /\ pc = "bbox"
    /\ bbox \in BBoxInputs
    /\ obj = None /\ im_data = None /\ region = None
    /\ DataIdle /\ ScriptIdle /\ TrainIdle
    /\ call = None /\ ret = None

NextRegions == Regions
SpecRegions == InitRegions /\ [][NextRegions]_vars

\* C1: the array returned by get_regions_from_bbox is ImDim x ImDim, holds
\* only 0 and 1, and entry (r, c) is 1 exactly when top < r < bottom and
\* left < c < right.
C1_RegionIsBoxInterior ==
    pc = "region" =>
        /\ DOMAIN region = 0..(ImDim - 1)
        /\ \A r \in 0..(ImDim - 1) :
            /\ DOMAIN region[r] = 0..(ImDim - 1)
            /\ \A c \in 0..(ImDim - 1) :
                /\ region[r][c] \in {0, 1}
                /\ region[r][c] = 1 <=>
                      /\ bbox[1].num < r * bbox[1].den
                      /\ r * bbox[3].den < bbox[3].num
                      /\ bbox[2].num < c * bbox[2].den
                      /\ c * bbox[4].den < bbox[4].num

\* a box with interior pixels and with pixels on its border, at distinct
\* row and column extents
C1_Witness ==
    /\ pc = "region"
    /\ bbox = <<Rat(0, 2), Rat(-1, 2), Rat(4, 2), Rat(3, 2)>>
    /\ region[1][0] = 1 /\ region[1][1] = 1
    /\ region[0][0] = 0 /\ region[2][0] = 0 /\ region[1][2] = 0

\* C2: rescale_bbox_coordinates returns (y_min*im_dim/height,
\* x_min*im_dim/width, min(y_max*im_dim/height, im_dim-1),
\* min(x_max*im_dim/width, im_dim-1)); bottom and right never exceed im_dim-1.
C2_RescaleFormula ==
    pc \in {"bbox", "region"} =>
        LET y_min == obj.bbox[1]
            y_max == obj.bbox[2]
            x_min == obj.bbox[3]
            x_max == obj.bbox[4]
            h == im_data.height
            w == im_data.width
            top == bbox[1]
            left == bbox[2]
            bottom == bbox[3]
            right == bbox[4]
        IN  /\ top.num * h = y_min * ImDim * top.den
            /\ left.num * w = x_min * ImDim * left.den
            /\ bottom.num <= (ImDim - 1) * bottom.den
            /\ right.num <= (ImDim - 1) * right.den
            /\ IF y_max * ImDim <= (ImDim - 1) * h
               THEN bottom.num * h = y_max * ImDim * bottom.den
               ELSE bottom.num = (ImDim - 1) * bottom.den
            /\ IF x_max * ImDim <= (ImDim - 1) * w
               THEN right.num * w = x_max * ImDim * right.den
               ELSE right.num = (ImDim - 1) * right.den

\* a non-square image: bottom is clamped, right is not, rows and columns
\* are scaled by different ratios
C2_Witness ==
    /\ pc = "bbox"
    /\ im_data = [height |-> 1, width |-> 3]
    /\ obj.bbox = <<1, 2, 1, 1>>
    /\ RatEQ(bbox[1], Rat(ImDim, 1))
    /\ RatEQ(bbox[2], Rat(ImDim, 3))
    /\ RatEQ(bbox[3], Rat(ImDim - 1, 1))
    /\ RatEQ(bbox[4], Rat(ImDim, 3)) /\ RatLT(bbox[4], Rat(ImDim - 1, 1))

\* ------------------------------------------------------ annotation files
\* image ids are file names, kept as (stem, extension)
ImageId(i) == <<"img" \o ToString(i), "jpg">>
ImageIds == {ImageId(i) : i \in 1..MaxImages}
ImageNo(id) == CHOOSE i \in 1..MaxImages : ImageId(i) = id

\* content of the image metadata json: one size per image
im_metadata == [id \in ImageIds |-> [height |-> ImageNo(id), width |-> ImageNo(id) + 1]]

\* j-th relationship annotated on image i
RelOf(i, j) ==
    [subject |-> [category |-> i, bbox |-> <<0, j, 0, i>>],
     predicate |-> j,
     object |-> [category |-> i + j, bbox |-> <<j, j + 1, i, i + 1>>]]

\* contents of the annotations json: a dict from image id to its list of
\* relationships; keys is the iteration order of the dict
Annotations ==
    UNION { { [keys |-> [i \in 1..n |-> ImageId(i)],
               rels |-> [id \in {ImageId(i) : i \in 1..n} |->
                            [j \in 1..cnt[ImageNo(id)] |-> RelOf(ImageNo(id), j)]]]
              : cnt \in [1..n -> 0..MaxRels] }
            : n \in 0..MaxImages }

\* ------------------------------------------------------- python helpers
\* int(x) of a float: truncation toward zero
PyInt(x) == IF x.num >= 0 THEN x.num \div x.den ELSE -((-x.num) \div x.den)
\* s[lo:hi] for 0 <= lo, 0 <= hi
PySlice(s, lo, hi) ==
    LET h == IF hi < Len(s) THEN hi ELSE Len(s)
    IN  IF lo >= h THEN <<>> ELSE [k \in 1..(h - lo) |-> s[lo + k]]
\* every order np.random.shuffle can leave the list in
Shuffles(s) == { [k \in 1..Len(s) |-> s[f[k]]] : f \in Permutations(1..Len(s)) }
\* np.array(list): same length, same rows
np_array(s) == s

ValSplits == {Rat(k, ValSplitDen) : k \in 0..ValSplitDen}

\* ------------------------------------------------- get_train_val_splits
\* lines 58-60, applied to the (possibly shuffled) list of image ids
\* variant: the validation list starts one past the threshold
SplitAt_gap(image_idx, val_split) ==
    LET split_thresh == PyInt(RatMul(Rat(Len(image_idx), 1),
                               Rat(val_split.den - val_split.num, val_split.den)))
    IN  <<PySlice(image_idx, 0, split_thresh),
          PySlice(image_idx, split_thresh + 1, Len(image_idx))>>

SplitAt(image_idx, val_split) ==
    LET split_thresh == PyInt(RatMul(Rat(Len(image_idx), 1),
                               Rat(val_split.den - val_split.num, val_split.den)))
    IN  <<PySlice(image_idx, 0, split_thresh),
          PySlice(image_idx, split_thresh, Len(image_idx))>>

get_train_val_splits(val_split, shuffle) ==
    \E image_idx \in (IF shuffle THEN Shuffles(data.keys) ELSE {data.keys}) :
        /\ train_image_idx' = SplitAt(image_idx, val_split)[1]
        /\ val_image_idx' = SplitAt(image_idx, val_split)[2]
        /\ ret' = <<train_image_idx', val_image_idx'>>
        /\ call' = [op |-> "get_train_val_splits",
                    val_split |-> val_split, shuffle |-> shuffle]

\* a caller of the class invoking get_train_val_splits
CallSplit ==
    /\ pc \in {"idle", "split"}
    /\ \E val_split \in ValSplits, shuffle \in BOOLEAN :
          get_train_val_splits(val_split, shuffle)
    /\ pc' = "split"
    /\ UNCHANGED <<bboxVars, data, args, fs, trainVars>>

InitSplit ==
    /\ pc = "idle"
    /\ data \in Annotations
    /\ train_image_idx = <<>> /\ val_image_idx = <<>>
    /\ BBoxIdle /\ ScriptIdle /\ TrainIdle
    /\ call = None /\ ret = None

NextSplit == CallSplit
SpecSplit == InitSplit /\ [][NextSplit]_vars

Occurrences(s, x) == Cardinality({k \in 1..Len(s) : s[k] = x})

\* C3: after any sequence of get_train_val_splits calls the returned lists
\* are the stored ones, every annotated image id occurs exactly once in
\* train ++ val and nothing else occurs, and without shuffling train is the
\* first int(n*(1-val_split)) ids in annotation order and val the rest.
C3_SplitPartitions ==
    pc = "split" =>
        LET n == Len(data.keys)
            all == train_image_idx \o val_image_idx
            t == (n * (call.val_split.den - call.val_split.num)) \div call.val_split.den
        IN  /\ ret = <<train_image_idx, val_image_idx>>
            /\ \A k \in 1..Len(all) : \E i \in 1..n : data.keys[i] = all[k]
            /\ \A i \in 1..n : Occurrences(all, data.keys[i]) = 1
            /\ ~call.shuffle =>
                  /\ Len(train_image_idx) = t
                  /\ \A k \in 1..t : train_image_idx[k] = data.keys[k]
                  /\ Len(val_image_idx) = n - t
                  /\ \A k \in 1..(n - t) : val_image_idx[k] = data.keys[t + k]

\* a shuffled split with both parts non-empty that is not the unshuffled one
C3_Witness ==
    /\ pc = "split"
    /\ call.shuffle
    /\ Len(train_image_idx) = 2 /\ Len(val_image_idx) >= 1
    /\ train_image_idx[1] = ImageId(3)
    /\ val_image_idx[1] = ImageId(1)

\* --------------------------------------------------------- build_dataset
\* lines 76-85: the relationships of one image, from the j-th on
RECURSIVE BuildRelationships(_, _, _)
BuildRelationships(image_id, j, acc) ==
    IF j > Len(data.rels[image_id]) THEN acc
    ELSE LET relationship == data.rels[image_id][j]
             im_data_ == im_metadata[image_id]
             subject_id == relationship.subject.category
             relationship_id == relationship.predicate
             object_id == relationship.object.category
             s_region == rescale_bbox_coordinates(relationship.subject, im_data_)
             o_region == rescale_bbox_coordinates(relationship.object, im_data_)
         IN  BuildRelationships(image_id, j + 1,
                [image_ids |-> acc.image_ids \o <<image_id>>,
                 relationships |-> acc.relationships \o
                                     << <<subject_id, relationship_id, object_id>> >>,
                 subjects_bbox |-> acc.subjects_bbox \o <<s_region>>,
                 objects_bbox |-> acc.objects_bbox \o <<o_region>>])

\* lines 74-85: the images of image_idx, from the i-th on
RECURSIVE BuildImages(_, _, _)
BuildImages(image_idx, i, acc) ==
    IF i > Len(image_idx) THEN acc
    ELSE BuildImages(image_idx, i + 1, BuildRelationships(image_idx[i], 1, acc))

\* variant: the object boxes are returned before the subject boxes
build_dataset_swapped(image_idx) ==
    LET acc == BuildImages(image_idx, 1,
                  [image_ids |-> <<>>, relationships |-> <<>>,
                   subjects_bbox |-> <<>>, objects_bbox |-> <<>>])
    IN  <<np_array(acc.image_ids), np_array(acc.relationships),
          np_array(acc.objects_bbox), np_array(acc.subjects_bbox)>>

build_dataset(image_idx) ==
    LET acc == BuildImages(image_idx, 1,
                  [image_ids |-> <<>>, relationships |-> <<>>,
                   subjects_bbox |-> <<>>, objects_bbox |-> <<>>])
    IN  <<np_array(acc.image_ids), np_array(acc.relationships),
          np_array(acc.subjects_bbox), np_array(acc.objects_bbox)>>

\* lists of known image ids handed to build_dataset
IdxLists == UNION { [1..n -> {data.keys[k] : k \in 1..Len(data.keys)}] : n \in 0..MaxIdxLen }

\* build_dataset reads self.data and self.im_metadata and changes nothing of
\* the object, so one call per data set and argument covers every call
BuildDataset ==
    /\ pc = "idle"
    /\ \E image_idx \in IdxLists :
          /\ ret' = build_dataset(image_idx)
          /\ call' = [op |-> "build_dataset", image_idx |-> image_idx]
    /\ pc' = "built"
    /\ UNCHANGED <<bboxVars, dataVars, args, fs, trainVars>>

NextBuild == BuildDataset
SpecBuild == InitSplit /\ [][NextBuild]_vars

\* number of relationships of the first i images of idx
RECURSIVE RelCount(_, _)
RelCount(idx, i) ==
    IF i = 0 THEN 0 ELSE RelCount(idx, i - 1) + Len(data.rels[idx[i]])

\* C4: build_dataset returns four sequences of length N = total number of
\* relationships of the listed images; row k of each describes the same
\* relationship (image id, category triple, rescaled subject and object
\* box), in the order of image_idx and then of the image's relationships.
C4_BuildRowsAligned ==
    pc = "built" =>
        LET idx == call.image_idx
            N == RelCount(idx, Len(idx))
        IN  /\ \A q \in 1..4 : Len(ret[q]) = N
            /\ \A i \in 1..Len(idx) : \A j \in 1..Len(data.rels[idx[i]]) :
                  LET k == RelCount(idx, i - 1) + j
                      rel == data.rels[idx[i]][j]
                      md == im_metadata[idx[i]]
                  IN  /\ ret[1][k] = idx[i]
                      /\ ret[2][k] = <<rel.subject.category, rel.predicate,
                                       rel.object.category>>
                      /\ \A q \in 1..4 :
                            /\ RatEQ(ret[3][k][q],
                                     rescale_bbox_coordinates(rel.subject, md)[q])
                            /\ RatEQ(ret[4][k][q],
                                     rescale_bbox_coordinates(rel.object, md)[q])

\* images listed against annotation order, one of them twice, each with
\* two relationships
C4_Witness ==
    /\ pc = "built"
    /\ call.image_idx = <<ImageId(2), ImageId(1), ImageId(2)>>
    /\ Len(data.rels[ImageId(1)]) = 2 /\ Len(data.rels[ImageId(2)]) = 2
    /\ Len(ret[1]) = 6
    /\ ret[1][3] = ImageId(1) /\ ret[1][5] = ImageId(2)
    /\ ret[2][4] = <<1, 2, 3>>

\* ------------------------------------------------ build_and_save_dataset
\* os.path.join(dir, name)
PathJoin(dir, name) == dir \o "/" \o name
\* the value None where a list of image ids is expected
NoList == <<None>>
\* a file write: the file at that path now holds content
WriteFile(files, path, content) ==
    {f \in files : f.path # path} \union {[path |-> path, content |-> content]}

\* lines 104-116: the relationships of one image, from position j on
\* (j counts from 0 as enumerate does)
RECURSIVE SaveRelationships(_, _, _, _)
SaveRelationships(save_dir, image_id, j, acc) ==
    IF j >= Len(data.rels[image_id]) THEN acc
    ELSE LET relationship == data.rels[image_id][j + 1]
             md == im_metadata[image_id]
             rel_id == image_id[1] \o "-" \o ToString(j)
             subject_id == relationship.subject.category
             predicate_id == relationship.predicate
             object_id == relationship.object.category
             s_bbox == rescale_bbox_coordinates(relationship.subject, md)
             o_bbox == rescale_bbox_coordinates(relationship.object, md)
             s_region == get_regions_from_bbox(s_bbox)
             o_region == get_regions_from_bbox(o_bbox)
             files1 == WriteFile(acc.files, PathJoin(save_dir, rel_id \o "-s.jpg"), s_region)
             files2 == WriteFile(files1, PathJoin(save_dir, rel_id \o "-o.jpg"), o_region)
         IN  SaveRelationships(save_dir, image_id, j + 1,
                [acc EXCEPT !.rel_idx = @ \o <<rel_id>>,
                            !.relationships = @ \o << <<subject_id, predicate_id, object_id>> >>,
                            !.files = files2])

\* lines 100-116: the images of image_idx, from position i on (from 0)
RECURSIVE SaveImages(_, _, _, _)
SaveImages(save_dir, image_idx, i, acc) ==
    IF i >= Len(image_idx) THEN acc
    ELSE LET printed == IF i % 100 = 0
                        THEN acc.stdout \o <<ToString(i) \o "/" \o ToString(Len(image_idx))
                                               \o " images processed">>
                        ELSE acc.stdout
         IN  SaveImages(save_dir, image_idx, i + 1,
                SaveRelationships(save_dir, image_idx[i + 1], 0,
                                  [acc EXCEPT !.stdout = printed]))

\* the file system after build_and_save_dataset(save_dir, image_idx) run on
\* file system f; image_idx is a list or None
build_and_save_dataset(f, save_dir, image_idx) ==
    LET idx == IF image_idx = NoList \/ image_idx = <<>> THEN data.keys ELSE image_idx
        acc == SaveImages(save_dir, idx, 0,
                   [rel_idx |-> <<>>, relationships |-> <<>>,
                    files |-> f.files, stdout |-> f.stdout])
        files1 == WriteFile(acc.files, PathJoin(save_dir, "rel_idx.npy"),
                            np_array(acc.rel_idx))
        files2 == WriteFile(files1, PathJoin(save_dir, "relationships.npy"),
                            np_array(acc.relationships))
    IN  [f EXCEPT !.files = files2, !.stdout = acc.stdout]

\* ------------------------------------------------------ data.py __main__
\* os.mkdir(path) succeeds when the parent exists and the path does not
DirNames == {"out", "models", "run"}
EntryNames == {"train", "val", "test", "1", "2"}
ParentOf(path) ==
    IF \E d \in DirNames, n \in EntryNames : PathJoin(d, n) = path
    THEN CHOOSE d \in DirNames : \E n \in EntryNames : PathJoin(d, n) = path
    ELSE "."
CanMkdir(path) == ParentOf(path) \in fs.dirs /\ path \notin fs.dirs
Mkdir(path) == [fs EXCEPT !.dirs = @ \union {path}, !.mkdirs = Append(@, path)]

DataArgs == [test : BOOLEAN, val_split : ValSplits,
             save_dir : {None, "out"}, img_dir : {None, "imgs"}]

InitScript ==
    /\ pc = "parsed"
    /\ args \in DataArgs
    /\ \E a \in Annotations, d \in {{"."}, {".", "out"}, {".", "out", "out/train"}} :
          fs = [annotations |-> a, dirs |-> d, mkdirs |-> <<>>,
                files |-> {}, stdout |-> <<>>]
    /\ DataIdle /\ BBoxIdle /\ TrainIdle
    /\ call = None /\ ret = None

scriptRest == <<bboxVars, args, trainVars>>

\* lines 173-175
CheckSaveDir ==
    /\ pc = "parsed"
    /\ IF args.save_dir = None
       THEN /\ fs' = [fs EXCEPT !.stdout = Append(@, "--save-dir not specified. Exiting!")]
            /\ pc' = "exit"
       ELSE /\ fs' = fs
            /\ pc' = "check_img"
    /\ UNCHANGED <<scriptRest, dataVars, call, ret>>

\* variant: the message is printed but the script goes on
CheckImgDir_NoExit ==
    /\ pc = "check_img"
    /\ IF args.img_dir = None
       THEN /\ fs' = [fs EXCEPT !.stdout = Append(@, "--img-dir not specified. Exiting!")]
            /\ pc' = "construct"
       ELSE /\ fs' = fs
            /\ pc' = "construct"
    /\ UNCHANGED <<scriptRest, dataVars, call, ret>>

\* lines 176-178
CheckImgDir ==
    /\ pc = "check_img"
    /\ IF args.img_dir = None
       THEN /\ fs' = [fs EXCEPT !.stdout = Append(@, "--img-dir not specified. Exiting!")]
            /\ pc' = "exit"
       ELSE /\ fs' = fs
            /\ pc' = "construct"
    /\ UNCHANGED <<scriptRest, dataVars, call, ret>>

\* lines 180-182 and VRDDataset.__init__
Construct ==
    /\ pc = "construct"
    /\ data' = fs.annotations
    /\ train_image_idx' = <<>>
    /\ val_image_idx' = <<>>
    /\ pc' = IF args.test THEN "test_mkdir" ELSE "split"
    /\ UNCHANGED <<scriptRest, fs, call, ret>>

\* lines 183-184, 189-190, 193-194: os.mkdir of one output directory
MkOutDir(at, name, next) ==
    /\ pc = at
    /\ LET dir == PathJoin(args.save_dir, name)
       IN  IF CanMkdir(dir)
           THEN fs' = Mkdir(dir) /\ pc' = next /\ ret' = ret
           ELSE fs' = fs /\ pc' = "raised" /\ ret' = "OSError"
    /\ UNCHANGED <<scriptRest, dataVars, call>>

MkTestDir == MkOutDir("test_mkdir", "test", "test_build")
MkTrainDir == MkOutDir("train_mkdir", "train", "train_build")
MkValDir == MkOutDir("val_mkdir", "val", "val_build")

\* line 185
BuildTest ==
    /\ pc = "test_build"
    /\ fs' = build_and_save_dataset(fs, PathJoin(args.save_dir, "test"), NoList)
    /\ pc' = "done"
    /\ UNCHANGED <<scriptRest, dataVars, call, ret>>

\* lines 187-188
MainSplit ==
    /\ pc = "split"
    /\ get_train_val_splits(args.val_split, TRUE)
    /\ pc' = "train_mkdir"
    /\ UNCHANGED <<scriptRest, data, fs>>

\* lines 191-192; train_split is the first returned list
BuildTrain ==
    /\ pc = "train_build"
    /\ fs' = build_and_save_dataset(
                [fs EXCEPT !.stdout = Append(@, "| Building training data...")],
                PathJoin(args.save_dir, "train"), ret[1])
    /\ pc' = "val_mkdir"
    /\ UNCHANGED <<scriptRest, dataVars, call, ret>>

\* lines 195-196; val_split is the second returned list
BuildVal ==
    /\ pc = "val_build"
    /\ fs' = build_and_save_dataset(
                [fs EXCEPT !.stdout = Append(@, "| Building validation data...")],
                PathJoin(args.save_dir, "val"), ret[2])
    /\ pc' = "done"
    /\ UNCHANGED <<scriptRest, dataVars, call, ret>>

NextScript ==
    \/ CheckSaveDir \/ CheckImgDir \/ Construct
    \/ MkTestDir \/ BuildTest
    \/ MainSplit \/ MkTrainDir \/ BuildTrain \/ MkValDir \/ BuildVal
SpecScript == InitScript /\ [][NextScript]_vars

\* C5: run without --save-dir or without --img-dir, the dataset script
\* prints a message and exits before it loads the annotations, creates a
\* directory or writes a file.
C5_MissingArgExitsEarly ==
    (args.save_dir = None \/ args.img_dir = None) =>
        /\ pc \in {"parsed", "check_img", "exit"}
        /\ data = None
        /\ fs.mkdirs = <<>>
        /\ fs.files = {}
        /\ pc = "exit" => Len(fs.stdout) = 1

\* --save-dir given, --img-dir missing: the second check is the one exiting
C5_Witness ==
    /\ pc = "exit"
    /\ args.save_dir # None /\ args.img_dir = None
    /\ fs.stdout = <<"--img-dir not specified. Exiting!">>
    /\ Len(fs.annotations.keys) > 0

Range(seq) == {seq[k] : k \in 1..Len(seq)}
\* relationship ids and mask paths image id can give rise to
RelIdsOf(id) == {id[1] \o "-" \o ToString(j) : j \in 0..(MaxRels - 1)}
MaskPathsOf(dir, id) ==
    {PathJoin(dir, r \o sfx) : r \in RelIdsOf(id), sfx \in {"-s.jpg", "-o.jpg"}}
\* the images that have a mask or a relationship id saved under dir
SavedImages(dir) ==
    {id \in ImageIds :
        \/ \E f \in fs.files : f.path \in MaskPathsOf(dir, id)
        \/ \E f \in fs.files : /\ f.path = PathJoin(dir, "rel_idx.npy")
                               /\ \E r \in Range(f.content) : r \in RelIdsOf(id)}

\* C7: in non-test mode what is saved under 'train' comes only from images
\* of the training split and what is saved under 'val' only from images of
\* the validation split, so no image contributes to both directories.
C7_SplitsDoNotLeak ==
    (~args.test /\ pc = "done") =>
        /\ SavedImages(PathJoin(args.save_dir, "train")) \subseteq Range(train_image_idx)
        /\ SavedImages(PathJoin(args.save_dir, "val")) \subseteq Range(val_image_idx)
        /\ SavedImages(PathJoin(args.save_dir, "train"))
              \intersect SavedImages(PathJoin(args.save_dir, "val")) = {}

\* ----------------------------------------------------- train.py __main__
\* heatmap thresholds in tenths: 3 stands for 0.3
Thresholds == {3, 5}
\* str(thresh)
Str(t) == "0." \o ToString(t)
ThresholdLists == UNION { [1..n -> Thresholds] : n \in 0..MaxThresholds }

\* the metric functions of line 64 with their __name__ (line 63 names the
\* lambda wrapping iou_bbox)
MetricFuncs == << [fn |-> "iou", name |-> "iou"],
                 [fn |-> "iou_acc", name |-> "iou_acc"],
                 [fn |-> "iou_bbox_metric", name |-> "iou_bbox"] >>

TrainArgs == [use_models_dir : BOOLEAN, models_dir : {None, "models"},
              save_dir : {None, "run"}, overwrite : BOOLEAN,
              heatmap_threshold : ThresholdLists]

TrainDirs == {{"."}, {".", "run"}, {".", "models"}, {".", "run", "models"},
              {".", "models", "models/1"}, {".", "run", "models", "models/1"}}

InitTrain ==
    /\ pc = "parsed"
    /\ args \in TrainArgs
    /\ \E d \in TrainDirs :
          fs = [dirs |-> d, mkdirs |-> <<>>, files |-> {}, stdout |-> <<>>]
    /\ metric_func = None /\ thresh = None /\ metrics = <<>>
    /\ DataIdle /\ BBoxIdle
    /\ call = None /\ ret = None

trainRest == <<bboxVars, dataVars>>

\* utils.train_utils.get_dir_name: some entry of models_dir
get_dir_name(models_dir) == {PathJoin(models_dir, n) : n \in {"1", "2"}}

\* lines 27-30
ResolveSaveDir ==
    /\ pc = "parsed"
    /\ IF args.use_models_dir /\ args.models_dir # None /\ args.save_dir = None
       THEN \E d \in get_dir_name(args.models_dir) : args' = [args EXCEPT !.save_dir = d]
       ELSE args' = args
    /\ pc' = "check_exists"
    /\ UNCHANGED <<trainRest, trainVars, fs, call, ret>>

\* os.path.isdir(path); a path of None raises TypeError
IsDir(path) == path \in fs.dirs

\* variant: an existing directory is never refused
CheckExists_NoGuard ==
    /\ pc = "check_exists"
    /\ IF args.overwrite
       THEN pc' = "mkdir" /\ ret' = ret
       ELSE IF args.save_dir = None
            THEN pc' = "raised" /\ ret' = "TypeError"
            ELSE pc' = "mkdir" /\ ret' = ret
    /\ UNCHANGED <<trainRest, trainVars, args, fs, call>>

\* lines 33-35
CheckExists ==
    /\ pc = "check_exists"
    /\ IF args.overwrite
       THEN pc' = "mkdir" /\ ret' = ret
       ELSE IF args.save_dir = None
            THEN pc' = "raised" /\ ret' = "TypeError"
            ELSE IF IsDir(args.save_dir)
                 THEN pc' = "raised" /\ ret' = "ValueError"
                 ELSE pc' = "mkdir" /\ ret' = ret
    /\ UNCHANGED <<trainRest, trainVars, args, fs, call>>

\* lines 38-39
MakeSaveDir ==
    /\ pc = "mkdir"
    /\ IF args.save_dir = None
       THEN fs' = fs /\ pc' = "raised" /\ ret' = "TypeError"
       ELSE IF ~IsDir(args.save_dir)
            THEN IF CanMkdir(args.save_dir)
                 THEN fs' = Mkdir(args.save_dir) /\ pc' = "logging" /\ ret' = ret
                 ELSE fs' = fs /\ pc' = "raised" /\ ret' = "OSError"
            ELSE fs' = fs /\ pc' = "logging" /\ ret' = ret
    /\ UNCHANGED <<trainRest, trainVars, args, call>>

\* logging.info(line): the line is appended to the log file
LogInfo(files, logfile, line) ==
    {IF f.path = logfile THEN [f EXCEPT !.content = Append(@, line)] ELSE f : f \in files}

\* lines 42-43: logging.basicConfig opens the log file; that fails when
\* its directory is missing
SetupLogging ==
    /\ pc = "logging"
    /\ LET logfile == PathJoin(args.save_dir, "train.log")
       IN  IF IsDir(args.save_dir)
           THEN /\ fs' = [fs EXCEPT !.files = @ \union {[path |-> logfile, content |-> <<>>]}]
                /\ pc' = "args_json" /\ ret' = ret
           ELSE fs' = fs /\ pc' = "raised" /\ ret' = "IOError"
    /\ UNCHANGED <<trainRest, trainVars, args, call>>

\* lines 46-49
StoreArgs ==
    /\ pc = "args_json"
    /\ LET args_file == PathJoin(args.save_dir, "args.json")
           logfile == PathJoin(args.save_dir, "train.log")
       IN  IF IsDir(args.save_dir)
           THEN /\ fs' = [fs EXCEPT !.files =
                             LogInfo(WriteFile(@, args_file, <<args>>), logfile, "args")]
                /\ pc' = "iterators" /\ ret' = ret
           ELSE fs' = fs /\ pc' = "raised" /\ ret' = "IOError"
    /\ UNCHANGED <<trainRest, trainVars, args, call>>

\* lines 52-63: the data iterators are built and the metric list is
\* initialised
SetupMetrics ==
    /\ pc = "iterators"
    /\ fs' = [fs EXCEPT !.files =
                 LogInfo(LogInfo(@, PathJoin(args.save_dir, "train.log"), "Train on"),
                         PathJoin(args.save_dir, "train.log"), "Validate on")]
    /\ metrics' = <<>>
    /\ call' = [op |-> "loop", i |-> 0, j |-> 0]
    /\ pc' = "outer"
    /\ UNCHANGED <<trainRest, metric_func, thresh, args, ret>>

\* line 64: the outer for statement takes its next metric function
OuterNext ==
    /\ pc = "outer"
    /\ IF call.i < Len(MetricFuncs)
       THEN /\ metric_func' = MetricFuncs[call.i + 1]
            /\ call' = [call EXCEPT !.i = @ + 1, !.j = 0]
            /\ pc' = "inner"
       ELSE /\ metric_func' = metric_func
            /\ call' = call
            /\ pc' = "compile"
    /\ UNCHANGED <<trainRest, thresh, metrics, args, fs, ret>>

\* line 66: a lambda keeps no values, only its code; metric_func and
\* thresh are looked up in the module's globals when it is called
MakeLambda(name) == [name |-> name, code |-> "metric_func(gt, pred, thresh)"]

\* lines 65-68: the inner for statement takes its next threshold
InnerNext ==
    /\ pc = "inner"
    /\ IF call.j < Len(args.heatmap_threshold)
       THEN /\ thresh' = args.heatmap_threshold[call.j + 1]
            /\ metrics' = Append(metrics,
                              MakeLambda(metric_func.name \o "_" \o Str(thresh')))
            /\ call' = [call EXCEPT !.j = @ + 1]
            /\ pc' = "inner"
       ELSE /\ thresh' = thresh
            /\ metrics' = metrics
            /\ call' = call
            /\ pc' = "outer"
    /\ UNCHANGED <<trainRest, metric_func, args, fs, ret>>

\* lines 71-92: the model is built and compiled with the metrics and
\* fit_generator is started
StartTraining ==
    /\ pc = "compile"
    /\ pc' = "fit"
    /\ UNCHANGED <<trainRest, trainVars, args, fs, call, ret>>

\* what a call metric(gt, pred) evaluates
EvalMetric(m) == [f |-> metric_func.fn, t |-> thresh]

\* the framework calls the k-th registered metric during training
CallMetric ==
    /\ pc = "fit"
    /\ \E k \in 1..Len(metrics) :
          /\ call' = [op |-> "metric", k |-> k]
          /\ ret' = EvalMetric(metrics[k])
    /\ UNCHANGED <<pc, trainRest, trainVars, args, fs>>

NextTrain ==
    \/ ResolveSaveDir \/ CheckExists \/ MakeSaveDir \/ SetupLogging \/ StoreArgs
    \/ SetupMetrics \/ OuterNext \/ InnerNext \/ StartTraining \/ CallMetric
SpecTrain == InitTrain /\ [][NextTrain]_vars

HasFile(path) == \E f \in fs.files : f.path = path

\* C6: with an existing save directory and no --overwrite a ValueError is
\* raised before anything is created or written and training never
\* starts; otherwise the save directory exists whenever the log file or
\* args.json exists, and training starts only after both were written.
C6_SaveDirGuard ==
    /\ (/\ pc # "parsed" /\ ~args.overwrite /\ args.save_dir # None
        /\ IsDir(args.save_dir) /\ args.save_dir \notin Range(fs.mkdirs)) =>
            /\ pc \in {"check_exists", "raised"}
            /\ pc = "raised" => ret = "ValueError"
            /\ fs.files = {}
            /\ fs.mkdirs = <<>>
    /\ (fs.files # {}) => (args.save_dir # None /\ IsDir(args.save_dir))
    /\ HasFile(PathJoin(args.save_dir, "args.json")) =>
            HasFile(PathJoin(args.save_dir, "train.log"))
    /\ pc \in {"iterators", "outer", "inner", "compile", "fit"} =>
            /\ HasFile(PathJoin(args.save_dir, "train.log"))
            /\ HasFile(PathJoin(args.save_dir, "args.json"))

\* the directory named by --save-dir exists, --overwrite is off
C6_Witness ==
    /\ pc = "raised" /\ ret = "ValueError"
    /\ args.save_dir = "run" /\ ~args.overwrite
    /\ fs.files = {} /\ fs.mkdirs = <<>>

\* C8: for every metric function f and threshold t one metric named
\* '<name of f>_<t>' is registered, and calling it once the list is built
\* evaluates f(gt, pred, t) with that f and that t.
C8_MetricsKeepTheirArguments ==
    (pc = "fit" /\ call.op = "metric") =>
        LET n == Len(args.heatmap_threshold)
            f == MetricFuncs[((call.k - 1) \div n) + 1]
            t == args.heatmap_threshold[((call.k - 1) % n) + 1]
        IN  /\ Len(metrics) = Len(MetricFuncs) * n
            /\ metrics[call.k].name = f.name \o "_" \o Str(t)
            /\ ret = [f |-> f.fn, t |-> t]

====
